---- MODULE Spec2Model ----
(***************************************************************************)
(* The non-transitive dice game of AkbarjonN/task3.                        *)
(*                                                                         *)
(* Two scripts are modelled:                                               *)
(*   src/unnamed/part_000  FairRandom (commit-reveal draw) + Game.play     *)
(*   src/task3.js          Game.play with bare crypto.randomInt draws      *)
(*                                                                         *)
(* A run is a stack of frames `pc` (last element = the frame that runs),   *)
(* each frame a "function:line" label of the source.  One action is the    *)
(* synchronous code between two suspension points (an awaited question, a  *)
(* draw from the entropy source) or one method call.                       *)
(***************************************************************************)
EXTENDS Integers, Sequences, FiniteSets, TLC

VARIABLES
    script,     \* which program runs: "part_000", "task3", "session", "sampler"
    dice,       \* Game.dice: sequence of dice, each a sequence of faces
    pc,         \* call stack of "function:line" labels
    self,       \* `this` of the FairRandom method that runs (a session id)
    sess,       \* the FairRandom objects created so far: id -> fields
    rnd,        \* uniformRandom's local rnd (Undefined outside the loop)
    ret,        \* value returned by the call that just finished
    userNum,    \* getResult's local userNum (Undefined outside getResult)
    play,       \* the locals of Game.play (or of the stand-alone session)
    rl,         \* selectDice's readline interface: "none", "open", "closed"
    console,    \* what was written to the terminal, in order
    status      \* "running", "done", "exit0", "exit1", "stalled"

vars == <<script, dice, pc, self, sess, rnd, ret, userNum, play, rl, console,
          status>>

(***************************************************************************)
(* Bounds of the model.                                                    *)
(***************************************************************************)
\* width of the random word in bits (bytesNeeded * 8 = 32 in the source)
WordBits == 3
\* number of distinct 32-byte keys crypto.randomBytes(32) may return
KeyCount == 1
\* longest line the user types at a number prompt
MaxLen == 2
\* invalid answers (re-prompts) in one run
MaxInvalid == 1
\* largest |range| a stand-alone FairRandom is constructed with
MaxRange == 3

Undefined == 0 - 1

Span == 2 ^ WordBits
Words == 0 .. (Span - 1)
Keys == 1 .. KeyCount

(***************************************************************************)
(* Text typed by the user: a sequence of one-character strings.            *)
(***************************************************************************)
\* the characters \d matches
DigitChars == {"0", "1", "2", "3", "4", "5", "6", "7", "8", "9"}
\* the characters of the lines typed at the prompts
Chars == {"0", "1", "2", "3", ".", "a"}
Strs(n) == UNION {[1 .. k -> Chars] : k \in 0 .. n}

DigitVal(c) ==
    CASE c = "0" -> 0 [] c = "1" -> 1 [] c = "2" -> 2 [] c = "3" -> 3
      [] c = "4" -> 4 [] c = "5" -> 5 [] c = "6" -> 6 [] c = "7" -> 7
      [] c = "8" -> 8 [] c = "9" -> 9

DigitChar(n) ==
    CASE n = 0 -> "0" [] n = 1 -> "1" [] n = 2 -> "2" [] n = 3 -> "3"
      [] n = 4 -> "4" [] n = 5 -> "5" [] n = 6 -> "6" [] n = 7 -> "7"
      [] n = 8 -> "8" [] n = 9 -> "9"

\* /^\d+$/.test(s)
IsDigits(s) == Len(s) >= 1 /\ \A i \in 1 .. Len(s) : s[i] \in DigitChars

\* Number(s) for a string of decimal digits
RECURSIVE DecimalValue(_)
DecimalValue(s) ==
    IF Len(s) = 0 THEN 0
    ELSE 10 * DecimalValue(SubSeq(s, 1, Len(s) - 1)) + DigitVal(s[Len(s)])

(***************************************************************************)
(* The numbers on the faces of dice: Number(x) of                          *)
(* src/unnamed/part_000:19 and the comparisons of lines 84 and 190-193.    *)
(***************************************************************************)
\* Number() of a decimal literal is Infinity from 2^1024 - 2^970 on (the
\* doubles end at 2^1024 - 2^971, and the half-way literal rounds up): the
\* 309 digits of that bound
InfinityFrom ==
    <<"1", "7", "9", "7", "6", "9", "3", "1", "3", "4">> \o
    <<"8", "6", "2", "3", "1", "5", "8", "0", "7", "9">> \o
    <<"3", "7", "2", "8", "9", "7", "1", "4", "0", "5">> \o
    <<"3", "0", "3", "4", "1", "5", "0", "7", "9", "9">> \o
    <<"3", "4", "1", "3", "2", "7", "1", "0", "0", "3">> \o
    <<"7", "8", "2", "6", "9", "3", "6", "1", "7", "3">> \o
    <<"7", "7", "8", "9", "8", "0", "4", "4", "4", "9">> \o
    <<"6", "8", "2", "9", "2", "7", "6", "4", "7", "5">> \o
    <<"0", "9", "4", "6", "6", "4", "9", "0", "1", "7">> \o
    <<"9", "7", "7", "5", "8", "7", "2", "0", "7", "0">> \o
    <<"9", "6", "3", "3", "0", "2", "8", "6", "4", "1">> \o
    <<"6", "6", "9", "2", "8", "8", "7", "9", "1", "0">> \o
    <<"9", "4", "6", "5", "5", "5", "5", "4", "7", "8">> \o
    <<"5", "1", "9", "4", "0", "4", "0", "2", "6", "3">> \o
    <<"0", "6", "5", "7", "4", "8", "8", "6", "7", "1">> \o
    <<"5", "0", "5", "8", "2", "0", "6", "8", "1", "9">> \o
    <<"0", "8", "9", "0", "2", "0", "0", "0", "7", "0">> \o
    <<"8", "3", "8", "3", "6", "7", "6", "2", "7", "3">> \o
    <<"8", "5", "4", "8", "4", "5", "8", "1", "7", "7">> \o
    <<"1", "1", "5", "3", "1", "7", "6", "4", "4", "7">> \o
    <<"5", "7", "3", "0", "2", "7", "0", "0", "6", "9">> \o
    <<"8", "5", "5", "5", "7", "1", "3", "6", "6", "9">> \o
    <<"5", "9", "6", "2", "2", "8", "4", "2", "9", "1">> \o
    <<"4", "8", "1", "9", "8", "6", "0", "8", "3", "4">> \o
    <<"9", "3", "6", "4", "7", "5", "2", "9", "2", "7">> \o
    <<"1", "9", "0", "7", "4", "1", "6", "8", "4", "4">> \o
    <<"4", "3", "6", "5", "5", "1", "0", "7", "0", "4">> \o
    <<"3", "4", "2", "7", "1", "1", "5", "5", "9", "6">> \o
    <<"9", "9", "5", "0", "8", "0", "9", "3", "0", "4">> \o
    <<"2", "8", "8", "0", "1", "7", "7", "9", "0", "4">> \o
    <<"1", "7", "4", "4", "9", "7", "7", "9", "2">>

\* Number(x) of line 19 is a double.  The model holds the doubles of dice
\* as the decimal digits of their value, and Infinity as a word no digits
\* spell
Infinity == <<"Infinity">>

\* 2^53: below it every integer is a double
TwoTo53 ==
    <<"9", "0", "0", "7", "1", "9", "9", "2", "5", "4", "7", "4", "0", "9", "9", "2">>

\* the digits without leading zeros ("0" for zero)
StripZeros(s) ==
    IF \A i \in 1 .. Len(s) : s[i] = "0"
    THEN <<"0">>
    ELSE LET k == CHOOSE i \in 1 .. Len(s) :
                      s[i] # "0" /\ \A j \in 1 .. i - 1 : s[j] = "0"
         IN SubSeq(s, k, Len(s))

\* the number written s is at least the number written b (no leading zeros)
NotBelow(s, b) ==
    IF Len(s) # Len(b) THEN Len(s) > Len(b)
    ELSE IF s = b THEN TRUE
    ELSE LET k == CHOOSE i \in 1 .. Len(s) :
                      s[i] # b[i] /\ \A j \in 1 .. i - 1 : s[j] = b[j]
         IN DigitVal(s[k]) > DigitVal(b[k])

\* a > b for two doubles of dice
Greater(a, b) ==
    IF a = Infinity THEN b # Infinity
    ELSE b # Infinity /\ a # b /\ NotBelow(a, b)

IsOdd(s) == DigitVal(s[Len(s)]) % 2 = 1

\* the number written s, halved (rounded down)
Half(s) ==
    LET h == [i \in 1 .. Len(s) |->
                 DigitChar((10 * (IF i = 1 THEN 0 ELSE DigitVal(s[i - 1]) % 2)
                            + DigitVal(s[i])) \div 2)]
    IN StripZeros(SubSeq(h, 1, Len(s)))

\* the number written s, doubled
Twice(s) ==
    LET carry(i) == IF i <= Len(s) /\ DigitVal(s[i]) >= 5 THEN 1 ELSE 0
        d == [i \in 1 .. Len(s) |->
                 DigitChar((2 * DigitVal(s[i]) + carry(i + 1)) % 10)]
    IN IF carry(1) = 1 THEN <<"1">> \o SubSeq(d, 1, Len(s))
       ELSE SubSeq(d, 1, Len(s))

\* the number written s, plus one
Successor(s) ==
    IF \A i \in 1 .. Len(s) : s[i] = "9"
    THEN <<"1">> \o [i \in 1 .. Len(s) |-> "0"]
    ELSE LET j == CHOOSE i \in 1 .. Len(s) :
                      s[i] # "9" /\ \A k \in i + 1 .. Len(s) : s[k] = "9"
         IN SubSeq([i \in 1 .. Len(s) |->
                       IF i < j THEN s[i]
                       ELSE IF i = j THEN DigitChar(DigitVal(s[i]) + 1)
                       ELSE "0"], 1, Len(s))

\* the number written s, halved n times
RECURSIVE HalfN(_, _)
HalfN(s, n) ==
    IF s = <<"0">> \/ n = 0 THEN s
    ELSE IF n = 1 THEN Half(s)
    ELSE HalfN(HalfN(s, n \div 2), n - n \div 2)

\* the number written s, doubled n times
RECURSIVE Scale(_, _)
Scale(s, n) ==
    IF s = <<"0">> \/ n = 0 THEN s
    ELSE IF n = 1 THEN Twice(s)
    ELSE Scale(Scale(s, n \div 2), n - n \div 2)

\* how many times the number written s is halved until it is below 2^53
RECURSIVE Halvings(_)
Halvings(s) == IF NotBelow(s, TwoTo53) THEN 1 + Halvings(Half(s)) ELSE 0

\* the exponent of the double of the number written s: the bits it has
\* beyond 53.  A number of L digits is at least 10^(L-1) > 2^(3321(L-1)/1000),
\* so that many bits less 53 are dropped at once and the rest one by one
Exponent(s) ==
    LET k0 == IF Len(s) <= 16 THEN 0 ELSE (3321 * (Len(s) - 1)) \div 1000 - 53
    IN k0 + Halvings(HalfN(s, k0))

\* the double nearest to the number written s, ties to the even mantissa:
\* guard is the last bit dropped, sticky tells whether a bit dropped before
\* it was set
NearestDouble(s) ==
    LET k == Exponent(s)
        q2 == HalfN(s, k - 1)
        guard == IsOdd(q2)
        sticky == Scale(q2, k - 1) # s
        q == Half(q2)
    IN IF k = 0 THEN s
       ELSE IF guard /\ (sticky \/ IsOdd(q)) THEN Scale(Successor(q), k)
       ELSE Scale(q, k)

\* line 19: Number(x) for a string of digits
NumberOfDigits(x) ==
    LET s == StripZeros(x)
    IN IF NotBelow(s, InfinityFrom) THEN Infinity ELSE NearestDouble(s)

\* the double of a small integer n
RECURSIVE Decimal(_)
Decimal(n) ==
    IF n < 10 THEN <<DigitChar(n)>>
    ELSE Decimal(n \div 10) \o <<DigitChar(n % 10)>>

\* the faces of a die, from a sequence of small integers
Die(f) == SubSeq([k \in 1 .. Len(f) |-> Decimal(f[k])], 1, Len(f))

\* String.prototype.trim as Number() applies it: blanks off both ends
RECURSIVE Trim(_)
Trim(s) ==
    IF Len(s) = 0 THEN s
    ELSE IF s[1] = " " THEN Trim(Tail(s))
    ELSE IF s[Len(s)] = " " THEN Trim(SubSeq(s, 1, Len(s) - 1))
    ELSE s

RECURSIVE Pow10(_)
Pow10(k) == IF k = 0 THEN 1 ELSE 10 * Pow10(k - 1)

\* a number n / d in lowest decimal terms (d a power of ten)
RECURSIVE Lowest(_, _)
Lowest(n, d) ==
    IF d > 1 /\ n % 10 = 0 THEN Lowest(n \div 10, d \div 10)
    ELSE [nan |-> FALSE, n |-> n, d |-> d]

NaN == [nan |-> TRUE, n |-> 0, d |-> 1]
Num(k) == [nan |-> FALSE, n |-> k, d |-> 1]

\* an unsigned decimal literal: digits, at most one point, at least one digit
UnsignedLiteral(t) ==
    LET dots == {i \in 1 .. Len(t) : t[i] = "."}
        p    == IF dots = {} THEN Len(t) + 1 ELSE CHOOSE i \in dots : TRUE
        ip   == SubSeq(t, 1, p - 1)
        fp   == SubSeq(t, p + 1, Len(t))
    IN  IF \/ Cardinality(dots) > 1
           \/ Len(ip) + Len(fp) = 0
           \/ \E i \in 1 .. Len(t) : t[i] \notin DigitChars \cup {"."}
        THEN NaN
        ELSE Lowest(DecimalValue(ip) * Pow10(Len(fp)) + DecimalValue(fp),
                    Pow10(Len(fp)))

\* Number(s) for a string over Chars: blanks trimmed, "" is 0, an optional
\* sign, then a decimal literal; anything else is NaN
JsNumber(s) ==
    LET t == Trim(s) IN
    IF Len(t) = 0 THEN Num(0)
    ELSE IF t[1] = "-"
    THEN LET u == UnsignedLiteral(Tail(t)) IN
         IF u.nan THEN NaN ELSE [u EXCEPT !.n = 0 - u.n]
    ELSE UnsignedLiteral(t)

\* x - 1 for a number x
Minus1(x) == IF x.nan THEN NaN ELSE [x EXCEPT !.n = x.n - x.d]

\* x + 1, as in the lines that print userDice + 1
Plus1(x) == IF x.nan THEN NaN ELSE [x EXCEPT !.n = x.n + x.d]

(***************************************************************************)
(* Stack helpers.                                                          *)
(***************************************************************************)
Top == IF Len(pc) = 0 THEN "" ELSE pc[Len(pc)]
Goto(l) == [pc EXCEPT ![Len(pc)] = l]
Call(back, callee) == Append(Goto(back), callee)
Return == SubSeq(pc, 1, Len(pc) - 1)

Ev(tag, sid, val) == [tag |-> tag, sid |-> sid, val |-> val]
Say(line) == Append(console, line)

\* an exception nobody catches before main: console.error(e.message), exit(1)
Throw(msg) ==
    /\ pc' = <<>>
    /\ status' = "exit1"
    /\ console' = Say(Ev("error", "", msg))

(***************************************************************************)
(* FairRandom (src/unnamed/part_000:26-78).                                *)
(***************************************************************************)
Abs(x) == IF x < 0 THEN 0 - x ELSE x

\* BigInt a % b for a >= 0 and b # 0: the remainder takes the dividend's sign
BigRem(a, b) == a % Abs(b)

\* Threshold with the biased tail kept: every word is accepted
ThresholdNoReject(max) == Span

\* 2^bits - (2^bits % max), the right-hand side of the test at line 38
Threshold(max) == Span - BigRem(Span, max)

\* the test at line 38
Accepts(r, max) == r < Threshold(max)

\* Number(rnd % max), line 39
Reduce(r, max) == BigRem(r, max)

\* Buffer.alloc(4).writeUInt32BE(num): the four bytes, most significant first
UInt32BE(num) ==
    << (num \div 16777216) % 256, (num \div 65536) % 256,
       (num \div 256) % 256, num % 256 >>

\* createHmac("sha3-256", key).update(buf).digest("hex"): the tag is a
\* symbolic term of the key and the message (an ideal MAC)
HmacSha3(key, buf) == <<"hmac-sha3-256", key, buf>>

\* FairRandom.calcHMAC(num) under the object's key
CalcHMAC(key, num) == HmacSha3(key, UInt32BE(num))

NoHmac == <<>>

NumInvalid == Cardinality({i \in 1 .. Len(console) : console[i].tag = "invalid"})

\* new FairRandom(range), lines 27-30 up to the call of uniformRandom; the
\* caller resumes at `back` once the constructor has returned
FairRandomNew(sid, range, back) ==
    /\ \E k \in Keys :
          sess' = [s \in DOMAIN sess \cup {sid} |->
                      IF s = sid
                      THEN [range |-> range, key |-> k,
                            number |-> Undefined, hmac |-> NoHmac]
                      ELSE sess[s]]
    /\ self' = sid
    /\ pc' = Append(Append(Goto(back), "constructor:30"), "uniformRandom:37")

\* line 37: four bytes from crypto.randomBytes
UniformRandomDraw ==
    /\ Top = "uniformRandom:37"
    /\ \E w \in Words : rnd' = w
    /\ pc' = Goto("uniformRandom:38")
    /\ UNCHANGED <<script, dice, self, sess, ret, userNum, play, rl, console,
                   status>>

\* lines 38-40: accept and return, or go round the loop; BigInt % 0n throws
UniformRandomTest ==
    /\ Top = "uniformRandom:38"
    /\ LET max == sess[self].range IN
       IF max = 0
       THEN /\ Throw("Division by zero")
            /\ rnd' = Undefined
            /\ UNCHANGED ret
       ELSE IF Accepts(rnd, max)
       THEN /\ ret' = Reduce(rnd, max)
            /\ pc' = Return
            /\ UNCHANGED <<rnd, console, status>>
       ELSE /\ rnd' = Undefined
            /\ pc' = Goto("uniformRandom:37")
            /\ UNCHANGED <<ret, console, status>>
    /\ UNCHANGED <<script, dice, self, sess, userNum, play, rl>>

\* line 30: this.number = <value returned by uniformRandom>
ConstructorNumber ==
    /\ Top = "constructor:30"
    /\ sess' = [sess EXCEPT ![self].number = ret]
    /\ ret' = Undefined
    /\ rnd' = Undefined
    /\ pc' = Goto("constructor:31")
    /\ UNCHANGED <<script, dice, self, userNum, play, rl, console, status>>

\* line 31: this.hmac = this.calcHMAC(this.number), and the constructor returns
ConstructorHmac ==
    /\ Top = "constructor:31"
    /\ sess' = [sess EXCEPT ![self].hmac = CalcHMAC(sess[self].key, sess[self].number)]
    /\ pc' = Return
    /\ UNCHANGED <<script, dice, self, rnd, ret, userNum, play, rl, console, status>>

\* showHMAC(), lines 50-52
ShowHMAC(sid) == Say(Ev("HMAC", sid, sess[sid].hmac))

\* Reveal disclosing a number other than the committed one
RevealOther(sid, out) ==
    Append(Append(out, Ev("Key", sid, sess[sid].key)),
           Ev("Computer number", sid, (sess[sid].number + 1) % sess[sid].range))

\* reveal(), lines 53-56, written after the lines `out`
Reveal(sid, out) ==
    Append(Append(out, Ev("Key", sid, sess[sid].key)),
           Ev("Computer number", sid, sess[sid].number))

\* the question of line 62
Prompt(sid) == Ev("Enter your number", sid, sess[sid].range - 1)

\* Accepted without the upper bound of line 65
AcceptedNoUpper(answer, range) ==
    /\ IsDigits(answer)
    /\ DecimalValue(answer) >= 0

\* the test of lines 63-65 on the line the user typed
Accepted(answer, range) ==
    /\ IsDigits(answer)
    /\ DecimalValue(answer) >= 0
    /\ DecimalValue(answer) < range

\* why a line is refused (not printed: the program says only "Invalid input")
Refusal(answer) == IF IsDigits(answer) THEN "out of range" ELSE "not a number"

\* getUserNumber(), lines 58-62: the interface is created and the question put
GetUserNumberEnter(sid, back) ==
    /\ self' = sid
    /\ console' = Say(Prompt(sid))
    /\ pc' = Call(back, "getUserNumber:62")

\* getUserNumber(), lines 62-70: an answer arrives; it is returned, or refused
\* and the question is put again
GetUserNumberAnswer ==
    /\ Top = "getUserNumber:62"
    /\ \E answer \in Strs(MaxLen) :
          IF Accepted(answer, sess[self].range)
          THEN /\ ret' = DecimalValue(answer)
               /\ console' = Say(Ev("input", self, DecimalValue(answer)))
               /\ pc' = Return
          ELSE /\ NumInvalid < MaxInvalid
               /\ console' = Append(Say(Ev("invalid", self, Refusal(answer))),
                                    Prompt(self))
               /\ UNCHANGED <<ret, pc>>
    /\ UNCHANGED <<script, dice, self, sess, rnd, userNum, play, rl, status>>

\* GetResultShowHMAC without the commitment being shown
GetResultSkipHMAC ==
    /\ Top = "getResult:73"
    /\ pc' = Goto("getResult:74")
    /\ UNCHANGED <<script, dice, self, sess, rnd, ret, userNum, play, rl, console,
                   status>>

\* getResult(), line 73
GetResultShowHMAC ==
    /\ Top = "getResult:73"
    /\ console' = ShowHMAC(self)
    /\ pc' = Goto("getResult:74")
    /\ UNCHANGED <<script, dice, self, sess, rnd, ret, userNum, play, rl, status>>

\* getResult(), line 74: the call of getUserNumber
GetResultGetUserNumber ==
    /\ Top = "getResult:74"
    /\ GetUserNumberEnter(self, "getResult:75")
    /\ UNCHANGED <<script, dice, sess, rnd, ret, userNum, play, rl, status>>

\* getResult() with line 75 left out: the session is never revealed
GetResultNoReveal ==
    /\ Top = "getResult:75"
    /\ userNum' = ret
    /\ ret' = Undefined
    /\ pc' = Goto("getResult:76")
    /\ UNCHANGED <<script, dice, self, sess, rnd, play, rl, console, status>>

\* getResult(), lines 74-75: userNum is assigned and the key and number revealed
GetResultReveal ==
    /\ Top = "getResult:75"
    /\ userNum' = ret
    /\ ret' = Undefined
    /\ console' = Reveal(self, console)
    /\ pc' = Goto("getResult:76")
    /\ UNCHANGED <<script, dice, self, sess, rnd, play, rl, status>>

\* GetResultValue without the reduction modulo range
GetResultNoMod(u, number, range) == u + number

\* the value of line 76
GetResultValue(u, number, range) == BigRem(u + number, range)

\* getResult(), line 76
GetResultReturn ==
    /\ Top = "getResult:76"
    /\ ret' = GetResultValue(userNum, sess[self].number, sess[self].range)
    /\ userNum' = Undefined
    /\ pc' = Return
    /\ UNCHANGED <<script, dice, self, sess, rnd, play, rl, console, status>>

FairRandomStep ==
    \/ UniformRandomDraw
    \/ UniformRandomTest
    \/ ConstructorNumber
    \/ ConstructorHmac
    \/ GetUserNumberAnswer
    \/ GetResultShowHMAC
    \/ GetResultGetUserNumber
    \/ GetResultReveal
    \/ GetResultReturn

(***************************************************************************)
(* One FairRandom session on its own: new FairRandom(range).getResult()    *)
(* for every range in -MaxRange .. MaxRange.                               *)
(***************************************************************************)
SessionRanges == (0 - MaxRange) .. MaxRange

InitSession ==
    /\ script = "session"
    /\ dice = <<>>
    /\ pc = <<"session:new">>
    /\ self = ""
    /\ sess = <<>>
    /\ rnd = Undefined
    /\ ret = Undefined
    /\ userNum = Undefined
    /\ play \in [range : SessionRanges, result : {Undefined}]
    /\ rl = "none"
    /\ console = <<>>
    /\ status = "running"

SessionNew ==
    /\ Top = "session:new"
    /\ FairRandomNew("fr", play.range, "session:getResult")
    /\ UNCHANGED <<script, dice, rnd, ret, userNum, play, rl, console, status>>

SessionGetResult ==
    /\ Top = "session:getResult"
    /\ pc' = Call("session:result", "getResult:73")
    /\ UNCHANGED <<script, dice, self, sess, rnd, ret, userNum, play, rl, console,
                   status>>

SessionResult ==
    /\ Top = "session:result"
    /\ play' = [play EXCEPT !.result = ret]
    /\ ret' = Undefined
    /\ pc' = <<>>
    /\ status' = "done"
    /\ UNCHANGED <<script, dice, self, sess, rnd, userNum, rl, console>>

NextSession ==
    \/ SessionNew
    \/ SessionGetResult
    \/ SessionResult
    \/ FairRandomStep

SpecSession == InitSession /\ [][NextSession]_vars

(***************************************************************************)
(* Game (src/unnamed/part_000:90-198).                                     *)
(***************************************************************************)
Null == Undefined
NoNum == [nan |-> TRUE, n |-> 0, d |-> 0]

\* a number that is one of the array indices 0 .. len-1
IsIndex(x, len) == ~x.nan /\ x.d = 1 /\ x.n >= 0 /\ x.n < len

\* what the user may type at the dice menu
MenuAnswers == {<<"e">>, <<"h">>} \cup Strs(MaxLen + 1)

\* the test of line 119 on idx = Number(ans) - 1
ValidChoice(idx, len, exclude) ==
    /\ ~idx.nan
    /\ idx.n >= 0
    /\ idx.n < len * idx.d
    /\ (exclude = Null \/ ~(idx.d = 1 /\ idx.n = exclude))

\* the menu of lines 101-107
Menu(exclude) == Ev("Select dice", "", exclude)

\* selectDice(exclude), lines 98-108: the interface is created, the menu shown
\* and the question put
SelectDiceEnter(exclude, back) ==
    /\ rl' = "open"
    /\ console' = Say(Menu(exclude))
    /\ pc' = Call(back, "selectDice:108")

\* selectDice, lines 108-124: an answer arrives
SelectDiceAnswer ==
    /\ Top = "selectDice:108"
    /\ status = "running"
    /\ \E ans \in MenuAnswers :
        LET idx == Minus1(JsNumber(ans)) IN
        IF ans = <<"e">>
        THEN \* rl.close(); process.exit(0)
             /\ rl' = "closed"
             /\ pc' = <<>>
             /\ status' = "exit0"
             /\ UNCHANGED <<ret, console>>
        ELSE IF ans = <<"h">>
        THEN \* rl.close(); the table; the menu again; question() on the
             \* closed interface either throws (the promise rejects and main
             \* catches it) or is never answered, by the version of Node
             /\ rl' = "closed"
             /\ UNCHANGED ret
             /\ \/ /\ pc' = <<>>
                   /\ status' = "exit1"
                   /\ console' = Append(Append(Say(Ev("Winning probabilities", "", 0)),
                                               Menu(play.exclude)),
                                        Ev("error", "", "readline was closed"))
                \/ /\ pc' = pc
                   /\ status' = "stalled"
                   /\ console' = Append(Say(Ev("Winning probabilities", "", 0)),
                                        Menu(play.exclude))
        ELSE IF ValidChoice(idx, Len(dice), play.exclude)
        THEN /\ rl' = "closed"
             /\ ret' = idx
             /\ pc' = Return
             /\ UNCHANGED <<console, status>>
        ELSE /\ NumInvalid < MaxInvalid
             /\ console' = Append(Say(Ev("invalid", "", "choice")), Menu(play.exclude))
             /\ UNCHANGED <<rl, ret, pc, status>>
    /\ UNCHANGED <<script, dice, self, sess, rnd, userNum, play>>

\* the dice the program is started with (DiceParser.parse has accepted them)
DiceInputs ==
    { << Die(<<3>>), Die(<<1, 4>>), Die(<<3, 5>>) >> }

InitPlay ==
    /\ script = "part_000"
    /\ dice \in DiceInputs
    /\ pc = <<"play:146">>
    /\ self = ""
    /\ sess = <<>>
    /\ rnd = Undefined
    /\ ret = Undefined
    /\ userNum = Undefined
    /\ play = [firstUserNum |-> Undefined, firstSum |-> Undefined,
               userFirst |-> FALSE, exclude |-> Null, userDice |-> NoNum,
               compDice |-> Undefined, userRollRes |-> Undefined,
               compUserNum |-> Undefined, compRollRes |-> Undefined]
    /\ rl = "none"
    /\ console = <<>>
    /\ status = "running"

\* lines 146-151: the greeting, and new FairRandom(2)
PlayStart ==
    /\ Top = "play:146"
    /\ FairRandomNew("frp", 2, "play:152")
    /\ UNCHANGED <<script, dice, rnd, ret, userNum, play, rl, console, status>>

\* line 152: frp.getResult() is called
PlayFirstGetResult ==
    /\ Top = "play:152"
    /\ self' = "frp"
    /\ pc' = Call("play:153", "getResult:73")
    /\ UNCHANGED <<script, dice, sess, rnd, ret, userNum, play, rl, console, status>>

\* line 153
FirstSum(number, firstUserNum) == (number + firstUserNum) % 2

\* lines 152-156: firstUserNum receives what getResult returned
PlayFirstSum ==
    /\ Top = "play:153"
    /\ LET fs == FirstSum(sess["frp"].number, ret) IN
       /\ play' = [play EXCEPT !.firstUserNum = ret, !.firstSum = fs,
                               !.userFirst = (fs = 0)]
       /\ console' = Append(Say(Ev("Result (mod 2)", "", fs)),
                            Ev("selects first", "", IF fs = 0 THEN "You" ELSE "Computer"))
    /\ ret' = Undefined
    /\ pc' = Goto("play:160")
    /\ UNCHANGED <<script, dice, self, sess, rnd, userNum, rl, status>>

\* lines 160-161 and 166-168: who selects first
PlaySelect ==
    /\ Top = "play:160"
    /\ IF play.userFirst
       THEN /\ SelectDiceEnter(Null, "play:161")
            /\ play' = [play EXCEPT !.exclude = Null]
       ELSE \E c \in 0 .. (Len(dice) - 1) :
            /\ play' = [play EXCEPT !.compDice = c, !.exclude = c]
            /\ rl' = "open"
            /\ console' = Append(Say(Ev("Computer selects Dice", "", c + 1)), Menu(c))
            /\ pc' = Call("play:168", "selectDice:108")
    /\ UNCHANGED <<script, dice, self, sess, rnd, ret, userNum, status>>

\* [...Array(n).keys()].filter(i => i !== userDice), line 163
OtherDice(n, userDice) ==
    LET keep == {i \in 0 .. (n - 1) : ~(userDice.d = 1 /\ userDice.n = i)}
        RECURSIVE Sorted(_)
        Sorted(S) == IF S = {} THEN <<>>
                     ELSE LET m == CHOOSE x \in S : \A y \in S : x <= y
                          IN <<m>> \o Sorted(S \ {m})
    IN Sorted(keep)

\* lines 161-164: the user's choice returns, the computer takes another die
PlayCompSelects ==
    /\ Top = "play:161"
    /\ \E j \in 0 .. (Len(dice) - 2) :
          LET c == OtherDice(Len(dice), ret)[j + 1] IN
          /\ play' = [play EXCEPT !.userDice = ret, !.compDice = c]
          /\ console' = Say(Ev("Computer selects Dice", "", c + 1))
    /\ ret' = Undefined
    /\ pc' = Goto("play:171")
    /\ UNCHANGED <<script, dice, self, sess, rnd, userNum, rl, status>>

\* line 168: the user's choice returns
PlayUserSelects ==
    /\ Top = "play:168"
    /\ play' = [play EXCEPT !.userDice = ret]
    /\ ret' = Undefined
    /\ pc' = Goto("play:171")
    /\ UNCHANGED <<script, dice, self, sess, rnd, userNum, rl, console, status>>

\* this.dice[i] for a number i: undefined unless i is an index
HasDie(i) == IsIndex(i, Len(dice))
Faces(i) == dice[i + 1]

\* lines 171-176: both dice are named; new FairRandom(faces.length) for the
\* user's roll, or a TypeError when this.dice[userDice] is undefined
PlayUserRoll ==
    /\ Top = "play:171"
    /\ IF HasDie(play.userDice)
       THEN /\ FairRandomNew("userRoll", Len(Faces(play.userDice.n)), "play:177")
            /\ console' = Append(Say(Ev("Your dice", "", Plus1(play.userDice))),
                                 Ev("Computer dice", "", play.compDice + 1))
            /\ UNCHANGED status
       ELSE /\ pc' = <<>>
            /\ status' = "exit1"
            /\ console' = Append(Append(Say(Ev("Your dice", "", Plus1(play.userDice))),
                                        Ev("Computer dice", "", play.compDice + 1)),
                                 Ev("error", "", "Cannot read properties of undefined"))
            /\ UNCHANGED <<self, sess>>
    /\ UNCHANGED <<script, dice, rnd, ret, userNum, play, rl>>

\* line 177: userRoll.getResult() is called
PlayUserGetResult ==
    /\ Top = "play:177"
    /\ self' = "userRoll"
    /\ pc' = Call("play:178", "getResult:73")
    /\ UNCHANGED <<script, dice, sess, rnd, ret, userNum, play, rl, console, status>>

\* lines 177-182: the user's face is shown; new FairRandom(faces.length) for
\* the computer's roll
PlayCompRoll ==
    /\ Top = "play:178"
    /\ play' = [play EXCEPT !.userRollRes = ret]
    /\ ret' = Undefined
    /\ console' = Say(Ev("You rolled face", "", Faces(play.userDice.n)[ret + 1]))
    /\ FairRandomNew("compRoll", Len(Faces(play.compDice)), "play:183")
    /\ UNCHANGED <<script, dice, rnd, userNum, rl, status>>

\* line 183: compRoll.showHMAC()
PlayCompShowHMAC ==
    /\ Top = "play:183"
    /\ console' = ShowHMAC("compRoll")
    /\ pc' = Goto("play:184")
    /\ UNCHANGED <<script, dice, self, sess, rnd, ret, userNum, play, rl, status>>

\* line 184: compRoll.getUserNumber() is called
PlayCompGetUserNumber ==
    /\ Top = "play:184"
    /\ GetUserNumberEnter("compRoll", "play:185")
    /\ UNCHANGED <<script, dice, sess, rnd, ret, userNum, play, rl, status>>

\* line 186
CompRollRes(number, compUserNum, len) == (number + compUserNum) % len

\* the verdict with a tie given to the user
VerdictTieWins(userFace, compFace) ==
    IF ~Greater(compFace, userFace) THEN "You win!"
    ELSE "Computer wins!"

\* the verdict of lines 190-196
Verdict(userFace, compFace) ==
    IF Greater(userFace, compFace) THEN "You win!"
    ELSE IF Greater(compFace, userFace) THEN "Computer wins!"
    ELSE "It's a tie!"

\* lines 184-197: reveal, the computer's face, the verdict; play returns
PlayFinish ==
    /\ Top = "play:185"
    /\ LET len == Len(Faces(play.compDice))
           res == CompRollRes(sess["compRoll"].number, ret, len)
           userFace == Faces(play.userDice.n)[play.userRollRes + 1]
           compFace == Faces(play.compDice)[res + 1]
       IN /\ play' = [play EXCEPT !.compUserNum = ret, !.compRollRes = res]
          /\ console' = Append(Append(Reveal("compRoll", console),
                                      Ev("Computer rolled face", "", compFace)),
                               Ev("verdict", "", Verdict(userFace, compFace)))
    /\ ret' = Undefined
    /\ pc' = <<>>
    /\ status' = "done"
    /\ UNCHANGED <<script, dice, self, sess, rnd, userNum, rl>>

PlayStep ==
    \/ PlayStart
    \/ PlayFirstGetResult
    \/ PlayFirstSum
    \/ PlaySelect
    \/ SelectDiceAnswer
    \/ PlayCompSelects
    \/ PlayUserSelects
    \/ PlayUserRoll
    \/ PlayUserGetResult
    \/ PlayCompRoll
    \/ PlayCompShowHMAC
    \/ PlayCompGetUserNumber
    \/ PlayFinish

(***************************************************************************)
(* Game of src/task3.js:36-162.  selectDice (45-75) is the code of         *)
(* part_000:97-125 line for line and is modelled by SelectDiceAnswer.      *)
(***************************************************************************)
InitTask3 ==
    /\ script = "task3"
    /\ dice \in DiceInputs
    /\ pc = <<"task3.play:114">>
    /\ self = ""
    /\ sess = <<>>
    /\ rnd = Undefined
    /\ ret = Undefined
    /\ userNum = Undefined
    /\ play = [max |-> Undefined, userNum |-> Undefined, compNum |-> Undefined,
               result |-> Undefined, userFirst |-> FALSE, exclude |-> Null,
               userDice |-> NoNum, compDice |-> Undefined,
               userRollIdx |-> Undefined, compRollIdx |-> Undefined]
    /\ rl = "none"
    /\ console = <<>>
    /\ status = "running"

\* the question of task3.js:102
Prompt3(max) == Ev("Enter a number", "", max - 1)

\* task3.js:114-118: the greeting, and getUserNumber(2) puts its question
Task3Start ==
    /\ Top = "task3.play:114"
    /\ play' = [play EXCEPT !.max = 2]
    /\ console' = Say(Prompt3(2))
    /\ pc' = Call("task3.play:118", "task3.getUserNumber:102")
    /\ UNCHANGED <<script, dice, self, sess, rnd, ret, userNum, rl, status>>

\* task3.js:102-110: an answer arrives; it is returned, or refused and the
\* question is put again
Task3GetUserNumberAnswer ==
    /\ Top = "task3.getUserNumber:102"
    /\ \E answer \in Strs(MaxLen) :
          IF Accepted(answer, play.max)
          THEN /\ ret' = DecimalValue(answer)
               /\ console' = Say(Ev("input", "", DecimalValue(answer)))
               /\ pc' = Return
          ELSE /\ NumInvalid < MaxInvalid
               /\ console' = Append(Say(Ev("invalid", "", Refusal(answer))),
                                    Prompt3(play.max))
               /\ UNCHANGED <<ret, pc>>
    /\ UNCHANGED <<script, dice, self, sess, rnd, userNum, play, rl, status>>

\* task3.js:120
Result3(u, compNum) == (u + compNum) % 2

\* task3.js:118-126: the user's number returns, then crypto.randomInt(0, 2)
Task3TurnOrder ==
    /\ Top = "task3.play:118"
    /\ \E compNum \in 0 .. 1 :
          LET result == Result3(ret, compNum) IN
          /\ play' = [play EXCEPT !.userNum = ret, !.compNum = compNum,
                                  !.result = result, !.userFirst = (result = 0)]
          /\ console' = Append(Append(Append(Say(Ev("Your number", "", ret)),
                                             Ev("Computer's number", "", compNum)),
                                      Ev("Result (mod 2)", "", result)),
                               Ev("selects first", "",
                                  IF result = 0 THEN "You" ELSE "Computer"))
    /\ ret' = Undefined
    /\ pc' = Goto("task3.play:129")
    /\ UNCHANGED <<script, dice, self, sess, rnd, userNum, rl, status>>

\* task3.js:129-130 and 135-137: who selects first
Task3Select ==
    /\ Top = "task3.play:129"
    /\ IF play.userFirst
       THEN /\ SelectDiceEnter(Null, "task3.play:130")
            /\ play' = [play EXCEPT !.exclude = Null]
       ELSE \E c \in 0 .. (Len(dice) - 1) :
            /\ play' = [play EXCEPT !.compDice = c, !.exclude = c]
            /\ rl' = "open"
            /\ console' = Append(Say(Ev("Computer selects Dice", "", c + 1)), Menu(c))
            /\ pc' = Call("task3.play:137", "selectDice:108")
    /\ UNCHANGED <<script, dice, self, sess, rnd, ret, userNum, status>>

\* task3.js:130-133: choices[crypto.randomInt(0, choices.length)]
Task3CompSelects ==
    /\ Top = "task3.play:130"
    /\ LET choices == OtherDice(Len(dice), ret) IN
       \E j \in 0 .. (Len(choices) - 1) :
          /\ play' = [play EXCEPT !.userDice = ret, !.compDice = choices[j + 1]]
          /\ console' = Say(Ev("Computer selects Dice", "", choices[j + 1] + 1))
    /\ ret' = Undefined
    /\ pc' = Goto("task3.play:140")
    /\ UNCHANGED <<script, dice, self, sess, rnd, userNum, rl, status>>

\* task3.js:137
Task3UserSelects ==
    /\ Top = "task3.play:137"
    /\ play' = [play EXCEPT !.userDice = ret]
    /\ ret' = Undefined
    /\ pc' = Goto("task3.play:140")
    /\ UNCHANGED <<script, dice, self, sess, rnd, userNum, rl, console, status>>

\* task3.js:140-161: both rolls are crypto.randomInt draws, then the verdict;
\* a TypeError when this.dice[userDice] is undefined
Task3Rolls ==
    /\ Top = "task3.play:140"
    /\ pc' = <<>>
    /\ IF HasDie(play.userDice)
       THEN \E u \in 0 .. (Len(Faces(play.userDice.n)) - 1) :
            \E c \in 0 .. (Len(Faces(play.compDice)) - 1) :
               LET userVal == Faces(play.userDice.n)[u + 1]
                   compVal == Faces(play.compDice)[c + 1]
               IN /\ play' = [play EXCEPT !.userRollIdx = u, !.compRollIdx = c]
                  /\ console' =
                        console \o
                        << Ev("Your dice", "", Plus1(play.userDice)),
                           Ev("Computer dice", "", play.compDice + 1),
                           Ev("You rolled face", "", userVal),
                           Ev("Computer rolled face", "", compVal),
                           Ev("verdict", "", Verdict(userVal, compVal)) >>
                  /\ status' = "done"
       ELSE /\ status' = "exit1"
            /\ console' = Append(Append(Say(Ev("Your dice", "", Plus1(play.userDice))),
                                        Ev("Computer dice", "", play.compDice + 1)),
                                 Ev("error", "", "Cannot read properties of undefined"))
            /\ UNCHANGED play
    /\ UNCHANGED <<script, dice, self, sess, rnd, ret, userNum, rl>>

Task3Step ==
    \/ Task3Start
    \/ Task3GetUserNumberAnswer
    \/ Task3TurnOrder
    \/ Task3Select
    \/ Task3CompSelects
    \/ Task3UserSelects
    \/ Task3Rolls

(***************************************************************************)
(* The repository: either script is started on a list of dice.             *)
(***************************************************************************)
Init == InitPlay \/ InitTask3

Next ==
    \/ PlayStep
    \/ FairRandomStep
    \/ Task3Step

Spec == Init /\ [][Next]_vars

(***************************************************************************)
(* uniformRandom on its own, for every range in 1 .. 2^WordBits: the       *)
(* constructor of lines 27-32 from the call of line 30 on.                 *)
(***************************************************************************)
InitSampler ==
    /\ script = "sampler"
    /\ dice = <<>>
    /\ pc = <<"constructor:30", "uniformRandom:37">>
    /\ self = "fr"
    /\ \E r \in 1 .. Span, k \in Keys :
          sess = [s \in {"fr"} |-> [range |-> r, key |-> k,
                                    number |-> Undefined, hmac |-> NoHmac]]
    /\ rnd = Undefined
    /\ ret = Undefined
    /\ userNum = Undefined
    /\ play = [result |-> Undefined]
    /\ rl = "none"
    /\ console = <<>>
    /\ status = "running"

NextSampler ==
    \/ UniformRandomDraw
    \/ UniformRandomTest
    \/ ConstructorNumber
    \/ ConstructorHmac

SpecSampler == InitSampler /\ [][NextSampler]_vars

(***************************************************************************)
(* The game of src/unnamed/part_000 alone.                                 *)
(***************************************************************************)
NextPlay ==
    \/ PlayStep
    \/ FairRandomStep

SpecPlay == InitPlay /\ [][NextPlay]_vars

(***************************************************************************)
(* The start of src/unnamed/part_000: main reads the command line,         *)
(* DiceParser.parse builds the dice, and play runs as far as its first     *)
(* question.                                                               *)
(***************************************************************************)
\* most arguments on the command line
MaxArgs == 3

\* a face of 310 digits, one of 309 digits above the bound, and the face
\* 2^53 + 1, which is no double
HugeFace == [i \in 1 .. 310 |-> "3"]
HugeFace309 == [i \in 1 .. 309 |-> IF i = 1 THEN "2" ELSE "0"]
RoundedFace ==
    <<"9", "0", "0", "7", "1", "9", "9", "2", "5", "4", "7", "4", "0", "9", "9", "3">>

\* the arguments tried: "", "3", "1,2", "03", "4,9", "14", "a", "1,", ",2",
\* "1.2", "-1", "1,,2" and the long faces
ArgStrs ==
    { <<>>, <<"3">>, <<"1", ",", "2">>, <<"0", "3">>, <<"a">>, <<"1", ",">>,
      <<",", "2">>, <<"1", ".", "2">>, <<"-", "1">>, <<"1", ",", ",", "2">>,
      <<"4", ",", "9">>, <<"1", "4">>, HugeFace, HugeFace309, RoundedFace }

\* the command lines of up to n arguments
ArgInputs(n) == UNION {[1 .. k -> ArgStrs] : k \in 0 .. n}

\* arg.split(",")
RECURSIVE Split(_)
Split(s) ==
    IF \A i \in 1 .. Len(s) : s[i] # ","
    THEN <<s>>
    ELSE LET k == CHOOSE i \in 1 .. Len(s) :
                      s[i] = "," /\ \A j \in 1 .. i - 1 : s[j] # ","
         IN <<SubSeq(s, 1, k - 1)>> \o Split(SubSeq(s, k + 1, Len(s)))

\* lines 17-22 and 5-8: one argument becomes a die, or an error
ParseDie(arg, i) ==
    LET xs == Split(arg)
    IN IF \E k \in 1 .. Len(xs) : ~IsDigits(xs[k])
       THEN [err |-> <<"Non-integer face in dice #", i>>, faces |-> <<>>]
       ELSE LET faces == [k \in 1 .. Len(xs) |-> NumberOfDigits(xs[k])]
            IN IF Len(faces) < 1
               THEN [err |-> <<"Dice must have faces">>, faces |-> <<>>]
               ELSE [err |-> <<>>, faces |-> faces]

\* DiceParser.parse, lines 12-23
Parse(args) ==
    IF Len(args) < 3
    THEN [err |-> <<"Error: Need at least 3 dice.">>, dice |-> <<>>]
    ELSE LET ds == [i \in 1 .. Len(args) |-> ParseDie(args[i], i)]
             bad == {i \in 1 .. Len(args) : ds[i].err # <<>>}
         IN IF bad # {}
            THEN [err |-> ds[CHOOSE i \in bad : \A j \in bad : i <= j].err, dice |-> <<>>]
            ELSE [err |-> <<>>, dice |-> [i \in 1 .. Len(args) |-> ds[i].faces]]

InitMain ==
    /\ script = "part_000"
    /\ dice = <<>>
    /\ pc = <<"main:202">>
    /\ self = ""
    /\ sess = <<>>
    /\ rnd = Undefined
    /\ ret = Undefined
    /\ userNum = Undefined
    /\ play \in [args : ArgInputs(MaxArgs)]
    /\ rl = "none"
    /\ console = <<>>
    /\ status = "running"

\* line 202, and lines 205-208 when parse throws
MainParse ==
    /\ Top = "main:202"
    /\ LET r == Parse(play.args)
       IN IF r.err # <<>>
          THEN /\ Throw(r.err)
               /\ UNCHANGED dice
          ELSE /\ dice' = r.dice
               /\ pc' = Goto("main:203")
               /\ UNCHANGED <<console, status>>
    /\ UNCHANGED <<script, self, sess, rnd, ret, userNum, play, rl>>

\* lines 203-204: new Game(dice), and play() is entered
MainPlay ==
    /\ Top = "main:203"
    /\ pc' = <<"play:146">>
    /\ play' = [firstUserNum |-> Undefined, firstSum |-> Undefined,
                userFirst |-> FALSE, exclude |-> Null, userDice |-> NoNum,
                compDice |-> Undefined, userRollRes |-> Undefined,
                compUserNum |-> Undefined, compRollRes |-> Undefined]
    /\ UNCHANGED <<script, dice, self, sess, rnd, ret, userNum, rl, console,
                   status>>

NextMain ==
    \/ MainParse
    \/ MainPlay
    \/ PlayStart
    \/ UniformRandomDraw
    \/ UniformRandomTest
    \/ ConstructorNumber
    \/ ConstructorHmac
    \/ PlayFirstGetResult
    \/ GetResultShowHMAC
    \/ GetResultGetUserNumber

SpecMain == InitMain /\ [][NextMain]_vars

(***************************************************************************)
(* Probability.winProb (src/unnamed/part_000:80-88, src/task3.js:26-34)    *)
(* on its own: the two loops, one step for each pair of faces.             *)
(***************************************************************************)
\* largest face of the dice winProb is tried on
MaxFace == 2
\* most faces of the dice winProb is tried on
MaxDieLen == 2

DiceA == Die(<<2, 2, 4, 4, 9, 9>>)
DiceB == Die(<<1, 1, 6, 6, 8, 8>>)
DiceC == Die(<<3, 3, 5, 5, 7, 7>>)

\* the dice winProb is tried on: new Dice(faces) has accepted them (line 6)
ProbDice ==
    {Die(f) : f \in UNION {[1 .. n -> 0 .. MaxFace] : n \in 1 .. MaxDieLen}}
       \cup {DiceA, DiceB, DiceC, Die(<<3, 3, 3>>)}

InitProb ==
    /\ script = "winProb"
    /\ dice \in ProbDice \X ProbDice
    /\ pc = <<"winProb:83">>
    /\ self = ""
    /\ sess = <<>>
    /\ rnd = Undefined
    /\ ret = Undefined
    /\ userNum = Undefined
    /\ play = [a |-> 1, b |-> 1, wins |-> 0, total |-> 0, p |-> <<>>]
    /\ rl = "none"
    /\ console = <<>>
    /\ status = "running"

\* the comparison of line 84 the other way round
BeatsReversed(a, b) == Greater(b, a)

\* the comparison of line 84 with ties counted as wins
BeatsOrTies(a, b) == ~Greater(b, a)

\* the comparison of line 84
Beats(a, b) == Greater(a, b)

\* lines 83-85: one pair (a, b) of the loops
WinProbPair ==
    /\ Top = "winProb:83"
    /\ play.a <= Len(dice[1])
    /\ LET a == dice[1][play.a]
           b == dice[2][play.b]
           last == play.b = Len(dice[2])
       IN play' = [play EXCEPT !.total = play.total + 1,
                               !.wins = IF Beats(a, b) THEN play.wins + 1
                                                       ELSE play.wins,
                               !.b = IF last THEN 1 ELSE play.b + 1,
                               !.a = IF last THEN play.a + 1 ELSE play.a]
    /\ UNCHANGED <<script, dice, pc, self, sess, rnd, ret, userNum, rl, console,
                   status>>

\* line 86: wins / total, kept as the pair of its terms
WinProbReturn ==
    /\ Top = "winProb:83"
    /\ play.a > Len(dice[1])
    /\ play' = [play EXCEPT !.p = <<play.wins, play.total>>]
    /\ pc' = <<>>
    /\ status' = "done"
    /\ UNCHANGED <<script, dice, self, sess, rnd, ret, userNum, rl, console>>

NextProb ==
    \/ WinProbPair
    \/ WinProbReturn

SpecProb == InitProb /\ [][NextProb]_vars

(***************************************************************************)
(* Reading the terminal.                                                   *)
(***************************************************************************)
\* the positions of the lines `tag` of session `sid`
At(tag, sid) ==
    {i \in 1 .. Len(console) : console[i].tag = tag /\ console[i].sid = sid}

\* the positions of the lines `tag`, of any session
AtAny(tag) == {i \in 1 .. Len(console) : console[i].tag = tag}

Before(I, J) == \A i \in I, j \in J : i < j

\* the number the user entered in session `sid` (one is accepted per session)
Entered(sid) == console[CHOOSE i \in At("input", sid) : TRUE].val

(***************************************************************************)
(* C1.  In every FairRandom session of part_000's game the steps come in   *)
(* the order: key and number generated, HMAC shown, user's number asked    *)
(* for and accepted, key and number revealed.  The number is never asked   *)
(* for before the HMAC is shown, and nothing is revealed before the user's *)
(* number is accepted.                                                     *)
(***************************************************************************)
C1_CommitRevealOrder ==
    [](\A sid \in DOMAIN sess :
         LET L == {i \in 1 .. Len(console) : console[i].sid = sid}
             H == {i \in L : console[i].tag = "HMAC"}
             P == {i \in L : console[i].tag = "Enter your number"}
             A == {i \in L : console[i].tag = "input"}
             K == {i \in L : console[i].tag = "Key"}
             N == {i \in L : console[i].tag = "Computer number"}
         IN /\ H # {} =>
                  /\ sess[sid].number # Undefined
                  /\ sess[sid].hmac # NoHmac
                  /\ \A h \in H : console[h].val = sess[sid].hmac
            /\ P # {} => H # {}
            /\ A # {} => P # {}
            /\ K \cup N # {} => A # {}
            /\ N # {} => K # {}
            /\ Before(H, P) /\ Before(P, A) /\ Before(A, K) /\ Before(K, N)
            /\ Cardinality(H) <= 1 /\ Cardinality(A) <= 1
            /\ Cardinality(K) <= 1 /\ Cardinality(N) <= 1)

\* the game is over: three sessions were revealed, one after a refused answer
C1_Witness ==
    /\ script = "part_000"
    /\ status = "done"
    /\ \A sid \in {"frp", "userRoll", "compRoll"} : At("Computer number", sid) # {}
    /\ At("invalid", "compRoll") # {}

(***************************************************************************)
(* C2.  The value printed as "Result (mod 2)", which decides who selects   *)
(* first, is (computer's number + user's number) mod 2 of the turn-order   *)
(* session.                                                                *)
(***************************************************************************)
C2_ResultIsCombined ==
    script = "part_000" =>
       \A i \in AtAny("Result (mod 2)") :
          LET combined == (sess["frp"].number + Entered("frp")) % 2 IN
          /\ console[i].val = combined
          /\ play.userFirst = (combined = 0)

(***************************************************************************)
(* C3.  In each of the three draws of part_000's game the outcome, for a   *)
(* fixed user's number, takes every value of 0 .. range-1 as the secret    *)
(* number ranges over 0 .. range-1, and likewise with the roles swapped.   *)
(***************************************************************************)
\* the outcome of each draw as play computes it from secret s and number v
TurnOrderOutcome(s, v) == FirstSum(s, GetResultValue(v, s, 2))
UserRollOutcome(s, v, r) == GetResultValue(v, s, r)
CompRollOutcome(s, v, r) == CompRollRes(s, v, r)

C3_NeitherPartyDecides ==
    script = "part_000" =>
       /\ play.firstSum # Undefined =>
             LET s == sess["frp"].number
                 v == Entered("frp")
             IN /\ play.firstSum = TurnOrderOutcome(s, v)
                /\ {TurnOrderOutcome(x, v) : x \in 0 .. 1} = 0 .. 1
                /\ {TurnOrderOutcome(s, y) : y \in 0 .. 1} = 0 .. 1
       /\ play.userRollRes # Undefined =>
             LET s == sess["userRoll"].number
                 r == sess["userRoll"].range
                 v == Entered("userRoll")
             IN /\ play.userRollRes = UserRollOutcome(s, v, r)
                /\ {UserRollOutcome(x, v, r) : x \in 0 .. (r - 1)} = 0 .. (r - 1)
                /\ {UserRollOutcome(s, y, r) : y \in 0 .. (r - 1)} = 0 .. (r - 1)
       /\ play.compRollRes # Undefined =>
             LET s == sess["compRoll"].number
                 r == sess["compRoll"].range
                 v == Entered("compRoll")
             IN /\ play.compRollRes = CompRollOutcome(s, v, r)
                /\ {CompRollOutcome(x, v, r) : x \in 0 .. (r - 1)} = 0 .. (r - 1)
                /\ {CompRollOutcome(s, y, r) : y \in 0 .. (r - 1)} = 0 .. (r - 1)

(***************************************************************************)
(* C4.  For every range r >= 1, secret s in 0 .. r-1 and accepted number v *)
(* in 0 .. r-1, getResult returns (s + v) mod r, which lies in 0 .. r-1.   *)
(***************************************************************************)
C4_GetResultValue ==
    (script = "session" /\ Top = "session:result") =>
       LET r == sess["fr"].range
           s == sess["fr"].number
           v == Entered("fr")
       IN /\ r >= 1
          /\ s \in 0 .. (r - 1)
          /\ v \in 0 .. (r - 1)
          /\ ret = (s + v) % r
          /\ ret \in 0 .. (r - 1)

\* getResult has returned a sum that wrapped round the range
C4_Witness ==
    /\ script = "session"
    /\ Top = "session:result"
    /\ sess["fr"].range = 3
    /\ sess["fr"].number = 2
    /\ Entered("fr") = 2
    /\ ret = 1

(***************************************************************************)
(* C5.  What is revealed is what was committed: once a session is          *)
(* constructed its key, number and hmac never change, the hmac is          *)
(* calcHMAC(number) under the key, and the commitment recomputed from the  *)
(* revealed key and number is the commitment that was shown.               *)
(***************************************************************************)
C5_Bound ==
    \A sid \in DOMAIN sess :
       /\ sess[sid].hmac # NoHmac =>
             sess[sid].hmac = HmacSha3(sess[sid].key, UInt32BE(sess[sid].number))
       /\ \A h \in At("HMAC", sid) :
             /\ console[h].val = sess[sid].hmac
             /\ \A k \in At("Key", sid), n \in At("Computer number", sid) :
                   console[h].val =
                      HmacSha3(console[k].val, UInt32BE(console[n].val))

C5_Fixed ==
    \A sid \in DOMAIN sess :
       sess[sid].hmac # NoHmac => (sid \in DOMAIN sess' /\ sess'[sid] = sess[sid])

C5_RevealedIsCommitted == [](C5_Bound) /\ [][C5_Fixed]_vars

\* a session has shown its commitment and revealed its key and number
C5_Witness ==
    /\ At("HMAC", "compRoll") # {}
    /\ At("Key", "compRoll") # {}
    /\ At("Computer number", "compRoll") # {}
    /\ At("invalid", "compRoll") # {}

(***************************************************************************)
(* C6.  In the game of task3.js every draw (turn order, user's roll,       *)
(* computer's roll) follows the commit-reveal order: the computer's value  *)
(* is committed to (its HMAC shown) before the user's number is asked for, *)
(* and the outcome combines the user's number with the committed value.    *)
(***************************************************************************)
C6_Task3CommitReveal ==
    script = "task3" =>
       /\ \A p \in AtAny("Enter a number") : \E h \in AtAny("HMAC") : h < p
       /\ \A f \in AtAny("You rolled face") \cup AtAny("Computer rolled face") :
             /\ \E h \in AtAny("HMAC") : h < f
             /\ Cardinality({a \in AtAny("input") : a < f}) >= 2

(***************************************************************************)
(* C7.  For every range in 1 .. 2^W, uniformRandom accepts a W-bit word r  *)
(* exactly when r < 2^W - (2^W mod range), returns r mod range, which lies *)
(* in 0 .. range-1, and every value of 0 .. range-1 is the image of        *)
(* exactly threshold / range accepted words.  For range 1 every word is    *)
(* accepted and the result is 0.                                           *)
(***************************************************************************)
\* the values each step of the sampler leaves behind
C7_Sampled ==
    script = "sampler" =>
       LET range == sess["fr"].range
           threshold == Span - (Span % range)
       IN /\ Top = "constructor:30" =>
                /\ rnd \in Words
                /\ rnd < threshold
                /\ ret = rnd % range
                /\ ret \in 0 .. (range - 1)
                /\ range = 1 => ret = 0
          /\ sess["fr"].number # Undefined => sess["fr"].number \in 0 .. (range - 1)
          /\ \A k \in 0 .. (range - 1) :
                Cardinality({w \in Words : Accepts(w, range) /\ Reduce(w, range) = k})
                   = threshold \div range
          /\ range = 1 => \A w \in Words : Accepts(w, range) /\ Reduce(w, range) = 0

\* a drawn word is accepted exactly when it is below the threshold
C7_AcceptsBelow ==
    (script = "sampler" /\ Top = "uniformRandom:38") =>
       LET range == sess["fr"].range
           threshold == Span - (Span % range)
       IN IF rnd < threshold
          THEN pc' = <<"constructor:30">> /\ ret' = rnd % range
          ELSE pc' = <<"constructor:30", "uniformRandom:37">> /\ ret' = Undefined

C7_UniformRandom == [](C7_Sampled) /\ [][C7_AcceptsBelow]_vars

\* range 3: a word of the second block was accepted, after one was rejected
C7_Witness ==
    /\ script = "sampler"
    /\ Top = "constructor:30"
    /\ sess["fr"].range = 3
    /\ rnd = 5
    /\ ret = 2

(***************************************************************************)
(* C8.  Constructing a FairRandom with a range below 1 fails with an       *)
(* error: no secret number is produced, no commitment computed and no      *)
(* user's number asked for.                                                *)
(***************************************************************************)
C8_InvalidRangeFails ==
    (script = "session" /\ play.range < 1) =>
       /\ ret = Undefined
       /\ \A sid \in DOMAIN sess :
             sess[sid].number = Undefined /\ sess[sid].hmac = NoHmac
       /\ AtAny("HMAC") = {}
       /\ AtAny("Enter your number") = {}
       /\ status # "done"

(***************************************************************************)
(* C9.  Every value getUserNumber returns, and so every user's number that *)
(* enters a combined result or a reveal, is an integer v with              *)
(* 0 <= v < range, whatever the user types (both scripts).                 *)
(***************************************************************************)
C9_UserNumberInRange ==
    /\ \A i \in AtAny("input") :
          LET range == IF script = "task3" THEN 2 ELSE sess[console[i].sid].range
          IN console[i].val \in 0 .. (range - 1)
    /\ Top \in {"getResult:75", "play:185"} => ret \in 0 .. (sess[self].range - 1)
    /\ Top = "task3.play:118" => ret \in 0 .. 1
    /\ userNum # Undefined => userNum \in 0 .. (sess[self].range - 1)
    /\ (script = "part_000" /\ play.compUserNum # Undefined) =>
          play.compUserNum \in 0 .. (sess["compRoll"].range - 1)
    /\ (script = "task3" /\ play.userNum # Undefined) => play.userNum \in 0 .. 1

\* a number was accepted after an out-of-range one was refused, in each script
C9_Witness ==
    \/ /\ script = "part_000"
       /\ \E i \in At("invalid", "userRoll") :
             /\ console[i].val = "out of range"
             /\ \E a \in At("input", "userRoll") : i < a
       /\ play.userRollRes # Undefined
    \/ /\ script = "task3"
       /\ \E i \in AtAny("invalid") :
             /\ console[i].val = "out of range"
             /\ \E a \in AtAny("input") : i < a
       /\ play.result # Undefined

(***************************************************************************)
(* C10.  When the user supplies a number outside 0 .. range-1 the session  *)
(* is aborted with an error; it neither reveals its key and number nor     *)
(* asks again.  (The loop of getUserNumber, src/unnamed/part_000:61-68,    *)
(* prints "Invalid input" and puts the question again instead.)            *)
(***************************************************************************)
C10_OutOfRangeAborts ==
    \A sid \in DOMAIN sess :
       \A i \in At("invalid", sid) :
          console[i].val = "out of range" =>
             /\ \A j \in At("Enter your number", sid) \cup At("Key", sid)
                          \cup At("Computer number", sid) : j < i
             /\ status = "exit1"

(***************************************************************************)
(* C11.  For all dice a and b, winProb(a, b) is the number of pairs (x, y) *)
(* of a face x of a and a face y of b with x > y, over |a| * |b|.  Ties    *)
(* count for neither side: wins(a, b) + wins(b, a) + ties = |a| * |b|.     *)
(* The result lies in [0, 1], and a die with all faces equal has winProb 0 *)
(* against itself.                                                         *)
(***************************************************************************)
Pairs(a, b) == (1 .. Len(a)) \X (1 .. Len(b))
WinPairs(a, b) ==
    Cardinality({q \in Pairs(a, b) : DecimalValue(a[q[1]]) > DecimalValue(b[q[2]])})
TiePairs(a, b) == Cardinality({q \in Pairs(a, b) : a[q[1]] = b[q[2]]})

C11_WinProb ==
    (script = "winProb" /\ status = "done") =>
       LET a == dice[1]
           b == dice[2]
           wins == play.p[1]
           total == play.p[2]
       IN /\ total = Len(a) * Len(b)
          /\ wins = WinPairs(a, b)
          /\ wins + WinPairs(b, a) + TiePairs(a, b) = total
          /\ 0 <= wins /\ wins <= total /\ total >= 1
          /\ (a = b /\ \A i \in 1 .. Len(a) : a[i] = a[1]) => wins = 0

\* winProb has returned 0 for [3,3,3] against itself
C11_Witness ==
    /\ script = "winProb"
    /\ status = "done"
    /\ dice = << Die(<<3, 3, 3>>), Die(<<3, 3, 3>>) >>
    /\ play.p = <<0, 9>>

(***************************************************************************)
(* C12.  For A = [2,2,4,4,9,9], B = [1,1,6,6,8,8], C = [3,3,5,5,7,7],      *)
(* winProb(A, B), winProb(B, C) and winProb(C, A) are each 5/9 (20 of 36   *)
(* pairs): a cycle with every link above 1/2.                              *)
(***************************************************************************)
C12_Cycle ==
    (/\ script = "winProb"
     /\ status = "done"
     /\ dice \in {<<DiceA, DiceB>>, <<DiceB, DiceC>>, <<DiceC, DiceA>>}) =>
       /\ play.p = <<20, 36>>
       /\ 9 * play.p[1] = 5 * play.p[2]
       /\ 2 * play.p[1] > play.p[2]

\* winProb(C, A) has returned
C12_Witness ==
    /\ script = "winProb"
    /\ status = "done"
    /\ dice = <<DiceC, DiceA>>
    /\ play.p = <<20, 36>>

(***************************************************************************)
(* C13.  When fewer than 3 dice are given, or a die has an empty face list *)
(* or a face that is not a string of digits, parse fails: main reports the *)
(* error and exits with status 1, and no step of the game (no session, no  *)
(* commitment, no question) is executed.  When parse succeeds every die    *)
(* has at least one face and every face is a non-negative integer.         *)
(***************************************************************************)
\* the argument is a comma-separated list of one or more strings of digits
WellFormed(arg) ==
    /\ Len(arg) >= 1
    /\ \A i \in 1 .. Len(arg) : arg[i] \in DigitChars \cup {","}
    /\ arg[1] # "," /\ arg[Len(arg)] # ","
    /\ \A i \in 1 .. Len(arg) - 1 : ~(arg[i] = "," /\ arg[i + 1] = ",")

BadArgs(args) == Len(args) < 3 \/ \E i \in 1 .. Len(args) : ~WellFormed(args[i])

C13_ParseRejects ==
    /\ (script = "part_000" /\ "args" \in DOMAIN play /\ Top # "main:202") =>
          IF BadArgs(play.args)
          THEN /\ status = "exit1"
               /\ pc = <<>>
               /\ dice = <<>>
               /\ sess = <<>>
               /\ Len(console) = 1
               /\ console[1].tag = "error"
          ELSE /\ status = "running"
               /\ Len(dice) = Len(play.args)

C13_DiceValidated ==
    /\ C13_ParseRejects
    /\ (script = "part_000" /\ dice # <<>>) =>
          \A i \in 1 .. Len(dice) :
             /\ Len(dice[i]) >= 1
             /\ \A k \in 1 .. Len(dice[i]) :
                   dice[i][k] # Infinity /\ IsDigits(dice[i][k])

(***************************************************************************)
(* C14.  The sessions of part_000's play never overlap: a session is       *)
(* created, committed and revealed before the next one is created, so at   *)
(* most one session is between its commitment and its reveal, and the      *)
(* lines of a session carry that session's own key, number and HMAC.       *)
(***************************************************************************)
Revealed(sid) == At("Computer number", sid) # {}
Lines(sid) == {i \in 1 .. Len(console) : console[i].sid = sid}

C14_SessionsInTurn ==
    [](script = "part_000" =>
         LET S == DOMAIN sess
             Rev == {sid \in S : Revealed(sid)}
         IN \* at most one session exists unrevealed, committed or not
            /\ Cardinality(S \ Rev) <= 1
            /\ "userRoll" \in S => "frp" \in Rev
            /\ "compRoll" \in S => "userRoll" \in Rev
            /\ \A sid \in S \ Rev : pc # <<>> => self = sid
            /\ Before(Lines("frp"), Lines("userRoll"))
            /\ Before(Lines("userRoll"), Lines("compRoll"))
            /\ \A i \in 1 .. Len(console) :
                  LET e == console[i] IN
                  /\ e.tag = "HMAC" =>
                        e.val = CalcHMAC(sess[e.sid].key, sess[e.sid].number)
                  /\ e.tag = "Key" => e.val = sess[e.sid].key
                  /\ e.tag = "Computer number" => e.val = sess[e.sid].number)

\* the second session is committed and not yet revealed; the first is over
C14_Witness ==
    /\ script = "part_000"
    /\ Revealed("frp")
    /\ "userRoll" \in DOMAIN sess
    /\ At("HMAC", "userRoll") # {}
    /\ ~Revealed("userRoll")
    /\ "compRoll" \notin DOMAIN sess

(***************************************************************************)
(* C15.  selectDice returns only an integer index i with 0 <= i < number   *)
(* of dice and i other than the excluded index, so after the selection the *)
(* user's die and the computer's die are two different valid indices.      *)
(***************************************************************************)
SelectDiceReturned ==
    Top \in {"play:161", "play:168", "task3.play:130", "task3.play:137"}

C15_SelectsValidIndex ==
    /\ SelectDiceReturned =>
          /\ IsIndex(ret, Len(dice))
          /\ play.exclude # Null => ret.n # play.exclude
    /\ play.userDice # NoNum =>
          /\ IsIndex(play.userDice, Len(dice))
          /\ play.compDice \in 0 .. (Len(dice) - 1)
          /\ play.compDice # play.userDice.n

(***************************************************************************)
(* C16.  selectDice never puts its question on a closed interface: the     *)
(* interface is open whenever the dice menu waits for an answer, also      *)
(* after Help has shown the probability table, and the selection goes on   *)
(* from there.                                                             *)
(***************************************************************************)
C16_AsksOnOpenInterface ==
    /\ Top = "selectDice:108" => rl = "open"
    /\ AtAny("Winning probabilities") # {} =>
          /\ status \notin {"exit1", "stalled"}
          /\ \A i \in AtAny("error") : console[i].val # "readline was closed"

(***************************************************************************)
(* C17.  In part_000 each rolled face is the face of the roller's own die  *)
(* at the index (computer's number + user's number) mod the number of the  *)
(* die's faces of the roll's own session, an index inside the die.  The    *)
(* verdict is "You win!" exactly when the user's face is the greater,      *)
(* "Computer wins!" exactly when it is the smaller, and a tie exactly when *)
(* the faces are equal.                                                    *)
(***************************************************************************)
RollIndex(sid, die) == (sess[sid].number + Entered(sid)) % Len(die)
FaceShown(tag) == console[CHOOSE i \in AtAny(tag) : TRUE].val

C17_RollsAndVerdict ==
    script = "part_000" =>
       LET U == AtAny("You rolled face")
           C == AtAny("Computer rolled face")
           V == AtAny("verdict")
       IN /\ Cardinality(U) <= 1 /\ Cardinality(C) <= 1 /\ Cardinality(V) <= 1
          /\ \A i \in U :
                LET die == dice[play.userDice.n + 1]
                    k == RollIndex("userRoll", die)
                IN /\ IsIndex(play.userDice, Len(dice))
                   /\ k \in 0 .. (Len(die) - 1)
                   /\ console[i].val = die[k + 1]
          /\ \A i \in C :
                LET die == dice[play.compDice + 1]
                    k == RollIndex("compRoll", die)
                IN /\ play.compDice \in 0 .. (Len(dice) - 1)
                   /\ k \in 0 .. (Len(die) - 1)
                   /\ console[i].val = die[k + 1]
          /\ \A v \in V :
                /\ U # {} /\ C # {}
                /\ LET u == FaceShown("You rolled face")
                       c == FaceShown("Computer rolled face")
                   IN /\ console[v].val \in
                            {"You win!", "Computer wins!", "It's a tie!"}
                      /\ console[v].val = "You win!" <=>
                            DecimalValue(u) > DecimalValue(c)
                      /\ console[v].val = "Computer wins!" <=>
                            DecimalValue(u) < DecimalValue(c)
                      /\ console[v].val = "It's a tie!" <=>
                            DecimalValue(u) = DecimalValue(c)

\* a game has ended in a tie: both sides rolled the face 3, of different dice
C17_Witness ==
    /\ script = "part_000"
    /\ status = "done"
    /\ play.compDice # play.userDice.n
    /\ \E v \in AtAny("verdict") : console[v].val = "It's a tie!"
    /\ \E i \in AtAny("You rolled face") : console[i].val = <<"3">>

(***************************************************************************)
(* C18.  A run of part_000's play in which the user does not choose exit   *)
(* and whose die choice, once made, is an index of a die, does not stop    *)
(* before the verdict: when nothing more can happen the game is over with  *)
(* exactly one of win, lose and tie printed and every session revealed.    *)
(***************************************************************************)
Stopped == status # "running"

C18_EndsInOneVerdict ==
    (/\ script = "part_000"
     /\ Stopped
     /\ status # "exit0"
     /\ play.userDice = NoNum \/ IsIndex(play.userDice, Len(dice))) =>
       /\ status = "done"
       /\ Cardinality(AtAny("verdict")) = 1
       /\ DOMAIN sess = {"frp", "userRoll", "compRoll"}
       /\ \A sid \in DOMAIN sess : Revealed(sid)

====
